---------------------------- MODULE Spec2Model ----------------------------
(***************************************************************************)
(* TargetTowers (src/web/script.js): a ball-sort puzzle.  The model covers *)
(* the puzzle generation (ball count, palette, randomized partition of the *)
(* balls over the columns, board construction) and the click handlers that *)
(* select and move the top ball of a column.                               *)
(*                                                                         *)
(* JavaScript arrays that are indexed by the handlers (the two boards) are *)
(* functions over 0..length-1, so that an index keeps its source value and *)
(* a read past the end yields `undefined` as in the source.  Arrays that   *)
(* are only built, shuffled and iterated (colors, candidate counts,        *)
(* partitions) are sequences; source index i is sequence index i + 1.      *)
(*                                                                         *)
(* Math.random() is the only input of the generation code.  Every operator *)
(* that draws from it returns the SET of the results it can produce; its   *)
(* parameter `draws` is the set of values floor(Math.random() * n) may     *)
(* take (Nat: any value).                                                  *)
(***************************************************************************)
EXTENDS Integers, Sequences, FiniteSets, TLC

\* ------------------------------------------------------------------------
\* Program constants and model bounds
\* ------------------------------------------------------------------------
COLUMNS == 3
HEIGHT == 4

\* The value of an empty slot and of "no selection".
null == -1
\* What a JavaScript array read past its end evaluates to.
undefined == -2

\* Bounds of the inputs of the partition specification (SpecPartition).
MaxColumns == 3
MaxBalls == 13
MaxHeight == 4

\* Bound of the number of elements in the build specification (SpecBuild).
MaxBuildBalls == 5

\* Bound of the length of the array in the shuffle specification (SpecShuffle).
MaxShuffleLen == 6

\* In the game specification the palette order and the reference board are
\* built with every random draw floor(Math.random() * n) at most this value
\* (the playable board and the ball count take every outcome).  The game is
\* symmetric under renaming the colors, and neither the palette order nor
\* the reference board ever changes after construction.
MaxRefDraw == 0

Min(a, b) == IF a < b THEN a ELSE b
Max(a, b) == IF a > b THEN a ELSE b

\* ------------------------------------------------------------------------
\* Random source
\* ------------------------------------------------------------------------
\* Math.floor(Math.random() * n) for an integer n >= 1: Math.random() lies in
\* [0, 1), so the result is any of 0 .. n-1.
RandomIndex(n, draws) == (0 .. (n - 1)) \cap draws

\* randomIntFromInterval(min, max) = Math.floor(Math.random() * (max - min + 1) + min).
\* max may be a half-integer (columns * height / 2 + 1), so it is passed
\* doubled: max2 = 2 * max.  With s = max - min + 1 the product
\* Math.random() * s ranges over [0, s) when s > 0 and over (s, 0] otherwise.
randomIntFromInterval(min, max2) ==
    LET s2 == max2 - 2 * min + 2
    IN  IF s2 > 0
        THEN min .. (min + ((s2 + 1) \div 2) - 1)
        ELSE (min + (s2 \div 2)) .. min

\* Mutant: the division by 2 is missing (maxBalls = columns * height + 1).
initNumberOfBallsNoHalf(columns, height) ==
    LET minBalls == columns * 2
        maxBalls2 == 2 * columns * height + 2
    IN  randomIntFromInterval(minBalls, maxBalls2)

\* initNumberOfBalls(columns, height): the set of ball counts it can return.
initNumberOfBalls(columns, height) ==
    LET minBalls == columns * 2
        maxBalls2 == columns * height + 2
    IN  randomIntFromInterval(minBalls, maxBalls2)

\* [array[currentIndex], array[randomIndex]] = [array[randomIndex], array[currentIndex]]
\* (source indices, 0-based).
Swap(array, currentIndex, randomIndex) ==
    [p \in 1 .. Len(array) |->
        IF p = currentIndex + 1 THEN array[randomIndex + 1]
        ELSE IF p = randomIndex + 1 THEN array[currentIndex + 1]
        ELSE array[p]]

\* The loop of shuffle from source index currentIndex on.
RECURSIVE shuffleFrom(_, _, _)
shuffleFrom(array, currentIndex, draws) ==
    IF currentIndex >= Len(array)
    THEN {array}
    ELSE UNION { shuffleFrom(Swap(array, currentIndex, randomIndex),
                             currentIndex + 1, draws) :
                 randomIndex \in RandomIndex(currentIndex, draws) }

\* shuffle(array): the set of orders it can leave the array in.
shuffle(array, draws) == shuffleFrom(array, 1, draws)

\* ------------------------------------------------------------------------
\* Palette
\* ------------------------------------------------------------------------
\* hslToHex(h, s, l) with the hue given as the fraction hNum / hDen.  The
\* arithmetic of the source is carried out exactly over the common
\* denominator; Math.round(x) is floor(x + 1/2).  The result "#rrggbb" is
\* represented by the number its six hexadecimal digits denote.
hslChannel(n, hNum, hDen, s, l) ==
    LET D == 30 * hDen
        K == (n * D + hNum) % (12 * D)               \* k = K / D
        T == Max(Min(Min(K - 3 * D, 9 * D - K), D), 0 - D)
        m == Min(l, 100 - l)                         \* a = s * m / 10000
        num == 255 * (100 * l * D - s * m * T)       \* 255 * color = num / den
        den == 10000 * D
    IN  (2 * num + den) \div (2 * den)

hslToHex(hNum, hDen, s, l) ==
    65536 * hslChannel(0, hNum, hDen, s, l)
    + 256 * hslChannel(8, hNum, hDen, s, l)
    + hslChannel(4, hNum, hDen, s, l)

\* The loop of initializeColors: colors_list before the shuffle.
colorsList(colorsLength) ==
    [p \in 1 .. colorsLength |->
        hslToHex(((p - 1) * 360) % (360 * colorsLength), colorsLength, 100, 50)]

\* initializeColors(colorsLength): the set of palettes it can return.
initializeColors(colorsLength, draws) == shuffle(colorsList(colorsLength), draws)


\* ------------------------------------------------------------------------
\* Partition of the balls over the columns
\* ------------------------------------------------------------------------
\* How a call of chooseBallsInColumn ends: kind is "return" (value is the
\* array returned), "throw" (the capacity error of the entry check) or
\* "undefined" (the candidate loop ran out and the function ended without a
\* return statement).  tried counts the candidates the call itself tried;
\* fellOut tells whether the call or any call nested in it ran out of
\* candidates.
Outcome(kind, value, tried, fellOut) ==
    [kind |-> kind, value |-> value, tried |-> tried, fellOut |-> fellOut]

\* Array.from(Array(n).keys()): the array [0, 1, ..., n-1].
keys(n) == [p \in 1 .. n |-> p - 1]

RECURSIVE chooseBallsInColumn(_, _, _, _)
RECURSIVE tryPossibilities(_, _, _, _)

\* The for loop of chooseBallsInColumn from candidate number idx on.
\* sub[first] is the set of ways the recursive call for candidate `first`
\* can end.  A recursive call that throws is caught; one that returns
\* undefined makes the spread `...undefined` throw a TypeError inside the
\* try block, which is caught as well: both continue with the next
\* candidate.
tryPossibilities(possibilities, idx, sub, fell) ==
    IF idx > Len(possibilities)
    THEN {Outcome("undefined", <<>>, idx - 1, TRUE)}
    ELSE LET firstColumnBalls == possibilities[idx]
             returned == {o \in sub[firstColumnBalls] : o.kind = "return"}
             caught == sub[firstColumnBalls] \ returned
         IN  { Outcome("return", <<firstColumnBalls>> \o o.value, idx,
                       fell \/ o.fellOut) : o \in returned }
             \cup
             UNION { tryPossibilities(possibilities, idx + 1, sub,
                                      fell \/ o.fellOut) : o \in caught }

\* Mutant: the candidates of the first column are not capped by the height
\* (balls + 1 candidates instead of Math.min(height, balls) + 1).
chooseBallsInColumnNoCap(columns, balls, height, draws) ==
    IF balls > height * columns
    THEN {Outcome("throw", <<>>, 0, FALSE)}
    ELSE IF columns = 1
    THEN {Outcome("return", <<balls>>, 0, FALSE)}
    ELSE LET n == balls + 1
             sub == [first \in 0 .. (n - 1) |->
                        chooseBallsInColumn(columns - 1, balls - first, height, draws)]
                    @@ <<>>
         IN  UNION { tryPossibilities(possibilities, 1, sub, FALSE) :
                     possibilities \in shuffle(keys(n), draws) }

\* Mutant: one candidate too few (Math.min(height, balls) candidates, the
\* largest count is never tried).
chooseBallsInColumnShort(columns, balls, height, draws) ==
    IF balls > height * columns
    THEN {Outcome("throw", <<>>, 0, FALSE)}
    ELSE IF columns = 1
    THEN {Outcome("return", <<balls>>, 0, FALSE)}
    ELSE LET n == Min(height, balls)
             sub == [first \in 0 .. (n - 1) |->
                        chooseBallsInColumn(columns - 1, balls - first, height, draws)]
                    @@ <<>>
         IN  UNION { tryPossibilities(possibilities, 1, sub, FALSE) :
                     possibilities \in shuffle(keys(n), draws) }

\* Mutant: the capacity is checked in the base case only, not at the entry
\* of every call.
chooseBallsInColumnLateCheck(columns, balls, height, draws) ==
    IF columns = 1
    THEN IF balls > height
         THEN {Outcome("throw", <<>>, 0, FALSE)}
         ELSE {Outcome("return", <<balls>>, 0, FALSE)}
    ELSE LET n == Min(height, balls) + 1
             sub == [first \in 0 .. (n - 1) |->
                        chooseBallsInColumn(columns - 1, balls - first, height, draws)]
                    @@ <<>>
         IN  UNION { tryPossibilities(possibilities, 1, sub, FALSE) :
                     possibilities \in shuffle(keys(n), draws) }

\* chooseBallsInColumn(columns, balls, height): the set of ways the call can
\* end.  For columns >= 1 the test balls / columns > height of the source is
\* balls > height * columns.
\* The ways the recursive calls can end do not depend on the order of the
\* candidates, so they are tabulated once per call (f @@ <<>> equals f and
\* makes the table an explicit function).
chooseBallsInColumn(columns, balls, height, draws) ==
    IF balls > height * columns
    THEN {Outcome("throw", <<>>, 0, FALSE)}
    ELSE IF columns = 1
    THEN {Outcome("return", <<balls>>, 0, FALSE)}
    ELSE LET n == Min(height, balls) + 1
             sub == [first \in 0 .. (n - 1) |->
                        chooseBallsInColumn(columns - 1, balls - first, height, draws)]
                    @@ <<>>
         IN  UNION { tryPossibilities(possibilities, 1, sub, FALSE) :
                     possibilities \in shuffle(keys(n), draws) }

\* ------------------------------------------------------------------------
\* Board construction
\* ------------------------------------------------------------------------
\* Mutant: the test of the inner loop is j <= columnLength.
buildColumnOneMore(shuffleElements, colorIndex, columnLength, height) ==
    [j \in 0 .. (height - 1) |->
        IF j <= columnLength
        THEN IF colorIndex + j + 1 \in DOMAIN shuffleElements
             THEN shuffleElements[colorIndex + j + 1]
             ELSE undefined
        ELSE null]

\* The inner loop of initializeState: one column of `height` slots, the
\* bottom columnLength of them colored from shuffleElements[colorIndex] on.
\* shuffleElements[i] past the end of the array is undefined.
buildColumn(shuffleElements, colorIndex, columnLength, height) ==
    [j \in 0 .. (height - 1) |->
        IF j < columnLength
        THEN IF colorIndex + j + 1 \in DOMAIN shuffleElements
             THEN shuffleElements[colorIndex + j + 1]
             ELSE undefined
        ELSE null]

\* colorIndex when the outer loop reaches column number i (0-based).
RECURSIVE colorIndexAt(_, _, _)
colorIndexAt(ballsInColumns, i, height) ==
    IF i = 0 THEN 0
    ELSE colorIndexAt(ballsInColumns, i - 1, height)
         + Min(Max(ballsInColumns[i], 0), height)

\* The outer loop of initializeState.
buildState(shuffleElements, ballsInColumns, height) ==
    [i \in 0 .. (Len(ballsInColumns) - 1) |->
        buildColumn(shuffleElements,
                    colorIndexAt(ballsInColumns, i, height),
                    ballsInColumns[i + 1], height)]

\* initializeState(elements, columns, height): the set of ways the call can
\* end: kind "return" with the board built, or kind "throw" when the
\* partition throws or is undefined (iterating undefined is a TypeError).
\* partition is ballsInColumns, the partition the board was built from.
initializeState(elements, columns, height, draws) ==
    { IF o.kind = "return"
      THEN [kind |-> "return",
            value |-> buildState(shuffleElements, o.value, height),
            partition |-> o.value]
      ELSE [kind |-> "throw", value |-> <<>>, partition |-> <<>>] :
      shuffleElements \in shuffle(elements, draws),
      o \in chooseBallsInColumn(columns, Len(elements), height, draws) }

\* ------------------------------------------------------------------------
\* State
\* ------------------------------------------------------------------------
VARIABLES
    NUMBER_OF_BALLS,   \* const NUMBER_OF_BALLS
    COLORS,            \* const COLORS: the palette, a sequence of colors
    state,             \* let state: the playable board, state[column][row]
    referenceState,    \* const referenceState: the target board
    selectedPiece,     \* let selectedPiece: noPiece or [column, row]
    gameContainerWon,  \* whether #game-container carries the class game-container-won
    lastBranch,        \* history: the branch the last click took ("load" before any)
    args,              \* the arguments of the call a specification of one function
                       \* makes (SpecPartition, SpecBuild, SpecShuffle), the
                       \* configuration in SpecSetup
    result,            \* how the latest call ended ("pending" before it)
    pc,                \* how far the DOMContentLoaded handler has run ("loaded":
                       \* to its end); args, result and pc do not change under Spec
    plan               \* SpecSolve: the clicks the player is still to make

vars == <<NUMBER_OF_BALLS, COLORS, state, referenceState, selectedPiece,
          gameContainerWon, lastBranch, args, result, pc, plan>>

gameVars == <<NUMBER_OF_BALLS, COLORS, state, referenceState, selectedPiece,
              gameContainerWon, lastBranch>>

\* The value of plan where the player follows no plan.
NoPlan == [found |-> FALSE, clicks |-> <<>>]

\* selectedPiece === null.
noPiece == [column |-> null, row |-> null]

\* Mutant: a read past the end of the column gives null, as if every column
\* had an empty slot at row HEIGHT.
AtPadded(board, column, row) ==
    IF row \in DOMAIN board[column] THEN board[column][row] ELSE null

\* board[column][row] as JavaScript reads it: undefined past the end of the column.
At(board, column, row) ==
    IF row \in DOMAIN board[column] THEN board[column][row] ELSE undefined

\* board[column][row] = value as JavaScript writes it: a write at the index
\* just past the end of the column lengthens the column.
Put(board, column, row, value) ==
    [board EXCEPT ![column] =
        [i \in (DOMAIN board[column]) \cup {row} |->
            IF i = row THEN value ELSE board[column][i]]]

\* ------------------------------------------------------------------------
\* Queries on the playable board
\* ------------------------------------------------------------------------
\* The loop of findEmptyRow from row i upwards (i <= HEIGHT in the source).
RECURSIVE findEmptyRowFrom(_, _)

\* Mutant: the slot is compared with == instead of ===, so that the
\* undefined read at row HEIGHT counts as empty.
findEmptyRowFromLoose(columnIndex, i) ==
    IF i <= HEIGHT
    THEN IF At(state, columnIndex, i) \in {null, undefined}
         THEN i
         ELSE findEmptyRowFrom(columnIndex, i + 1)
    ELSE -1

findEmptyRowFrom(columnIndex, i) ==
    IF i <= HEIGHT
    THEN IF At(state, columnIndex, i) = null
         THEN i
         ELSE findEmptyRowFrom(columnIndex, i + 1)
    ELSE -1

\* Mutant: the column is scanned from the top, so that the highest empty
\* row is returned.
findEmptyRowHighest(columnIndex) ==
    LET empty == {i \in 0 .. (HEIGHT - 1) : At(state, columnIndex, i) = null}
    IN  IF empty = {} THEN -1
        ELSE CHOOSE i \in empty : \A k \in empty : k <= i

findEmptyRow(columnIndex) == findEmptyRowFrom(columnIndex, 0)

\* The loop of findTopPiece from row i downwards.
RECURSIVE findTopPieceFrom(_, _)
findTopPieceFrom(columnIndex, i) ==
    IF i >= 0
    THEN IF At(state, columnIndex, i) # null
         THEN i
         ELSE findTopPieceFrom(columnIndex, i - 1)
    ELSE -1

\* Mutant: the column is scanned from the bottom, so that the lowest piece
\* is returned.
findTopPieceLowest(columnIndex) ==
    LET filled == {i \in 0 .. (HEIGHT - 1) : At(state, columnIndex, i) # null}
    IN  IF filled = {} THEN -1
        ELSE CHOOSE i \in filled : \A k \in filled : i <= k

findTopPiece(columnIndex) == findTopPieceFrom(columnIndex, HEIGHT - 1)

\* The two loops of haveWon over board and reference, from slot (i, j) on.
RECURSIVE haveWonFrom(_, _, _, _)
haveWonFrom(board, reference, i, j) ==
    IF i < COLUMNS
    THEN IF j < HEIGHT
         THEN IF At(board, i, j) # At(reference, i, j)
              THEN FALSE
              ELSE haveWonFrom(board, reference, i, j + 1)
         ELSE haveWonFrom(board, reference, i + 1, 0)
    ELSE TRUE

\* Mutant: the outer loop starts at column 1, as the loop of shuffle does.
haveWonSkipFirst(board) == haveWonFrom(board, referenceState, 1, 0)

\* haveWon() on the given playable board.
haveWon(board) == haveWonFrom(board, referenceState, 0, 0)

\* ------------------------------------------------------------------------
\* Click handlers
\* ------------------------------------------------------------------------
\* Mutant: the result -1 of findTopPiece is not tested.
handleFirstClickNoTest(columnIndex) ==
    LET rowTopPiece == findTopPiece(columnIndex)
    IN  /\ selectedPiece' = [column |-> columnIndex, row |-> rowTopPiece]
        /\ state' = state
        /\ lastBranch' = "select"

\* handleFirstClick(columnIndex).
handleFirstClick(columnIndex) ==
    LET rowTopPiece == findTopPiece(columnIndex)
    IN  /\ selectedPiece' =
              IF rowTopPiece = -1
              THEN noPiece
              ELSE [column |-> columnIndex, row |-> rowTopPiece]
        /\ state' = state
        /\ lastBranch' = IF rowTopPiece = -1 THEN "noop" ELSE "select"

\* Mutant: a click on the column of the selection is not treated apart.
handleSecondClickNoCancel(columnIndex) ==
    LET targetColumn == columnIndex
        targetRow == findEmptyRow(targetColumn)
    IN  /\ state' =
              IF targetRow # -1
              THEN Put(Put(state, targetColumn, targetRow,
                           At(state, selectedPiece.column, selectedPiece.row)),
                       selectedPiece.column, selectedPiece.row, null)
              ELSE state
        /\ selectedPiece' = noPiece
        /\ lastBranch' = IF targetColumn = selectedPiece.column THEN "cancel"
                         ELSE IF targetRow # -1 THEN "move" ELSE "reject"

\* Mutant: the source slot is not emptied after the move.
handleSecondClickNoClear(columnIndex) ==
    LET targetColumn == columnIndex
    IN  IF targetColumn = selectedPiece.column
        THEN /\ selectedPiece' = noPiece
             /\ state' = state
             /\ lastBranch' = "cancel"
        ELSE LET targetRow == findEmptyRow(targetColumn)
             IN  /\ state' =
                       IF targetRow # -1
                       THEN Put(state, targetColumn, targetRow,
                                At(state, selectedPiece.column, selectedPiece.row))
                       ELSE state
                 /\ selectedPiece' = noPiece
                 /\ lastBranch' = IF targetRow # -1 THEN "move" ELSE "reject"

\* Mutant: the selection is not reset after a move.
handleSecondClickKeepsPiece(columnIndex) ==
    LET targetColumn == columnIndex
    IN  IF targetColumn = selectedPiece.column
        THEN /\ selectedPiece' = noPiece
             /\ state' = state
             /\ lastBranch' = "cancel"
        ELSE LET targetRow == findEmptyRow(targetColumn)
             IN  /\ state' =
                       IF targetRow # -1
                       THEN Put(Put(state, targetColumn, targetRow,
                                    At(state, selectedPiece.column, selectedPiece.row)),
                                selectedPiece.column, selectedPiece.row, null)
                       ELSE state
                 /\ selectedPiece' = IF targetRow # -1 THEN selectedPiece ELSE noPiece
                 /\ lastBranch' = IF targetRow # -1 THEN "move" ELSE "reject"

\* handleSecondClick(columnIndex).
handleSecondClick(columnIndex) ==
    LET targetColumn == columnIndex
    IN  IF targetColumn = selectedPiece.column
        THEN /\ selectedPiece' = noPiece
             /\ state' = state
             /\ lastBranch' = "cancel"
        ELSE LET targetRow == findEmptyRow(targetColumn)
             IN  /\ state' =
                       IF targetRow # -1
                       THEN Put(Put(state, targetColumn, targetRow,
                                    At(state, selectedPiece.column, selectedPiece.row)),
                                selectedPiece.column, selectedPiece.row, null)
                       ELSE state
                 /\ selectedPiece' = noPiece
                 /\ lastBranch' = IF targetRow # -1 THEN "move" ELSE "reject"

\* Mutant: the two boards are one array (referenceState aliases state), so
\* that a move shows on the reference board as well.
handleClickAliased(columnIndex) ==
    /\ IF selectedPiece = noPiece
       THEN handleFirstClick(columnIndex)
       ELSE handleSecondClick(columnIndex)
    /\ referenceState' = IF state' = state THEN referenceState ELSE state'
    /\ gameContainerWon' = haveWonFrom(state', referenceState', 0, 0)
    /\ UNCHANGED <<NUMBER_OF_BALLS, COLORS, args, result, pc>>

\* handleClick(columnIndex), with the renderGame() that ends it: the
\* rendering reads the boards and sets the class of the game container from
\* haveWon().
handleClick(columnIndex) ==
    /\ IF selectedPiece = noPiece
       THEN handleFirstClick(columnIndex)
       ELSE handleSecondClick(columnIndex)
    /\ gameContainerWon' = haveWon(state')
    /\ UNCHANGED <<NUMBER_OF_BALLS, COLORS, referenceState, args, result, pc>>

\* ------------------------------------------------------------------------
\* The game: the state after the DOMContentLoaded handler has run, then clicks
\* ------------------------------------------------------------------------
Init ==
    /\ NUMBER_OF_BALLS \in initNumberOfBalls(COLUMNS, HEIGHT)
    /\ COLORS \in initializeColors(NUMBER_OF_BALLS, 0 .. MaxRefDraw)
    /\ selectedPiece = noPiece
    /\ state \in { b.value : b \in { o \in initializeState(COLORS, COLUMNS, HEIGHT, Nat) :
                                      o.kind = "return" } }
    /\ referenceState \in
           { b.value : b \in { o \in initializeState(COLORS, COLUMNS, HEIGHT,
                                                    0 .. MaxRefDraw) :
                               o.kind = "return" } }
    /\ gameContainerWon = haveWon(state)
    /\ lastBranch = "load"
    /\ args = [columns |-> COLUMNS, balls |-> NUMBER_OF_BALLS, height |-> HEIGHT]
    /\ result = Outcome("pending", <<>>, 0, FALSE)
    /\ pc = "loaded"
    /\ plan = NoPlan

Next ==
    /\ \E columnIndex \in 0 .. (COLUMNS - 1) : handleClick(columnIndex)
    /\ UNCHANGED plan

Spec == Init /\ [][Next]_vars

\* ------------------------------------------------------------------------
\* The partition on its own: one call of chooseBallsInColumn on any input
\* ------------------------------------------------------------------------
InitPartition ==
    /\ args \in [columns : 1 .. MaxColumns, balls : 0 .. MaxBalls,
                 height : 0 .. MaxHeight]
    /\ result = Outcome("pending", <<>>, 0, FALSE)
    /\ NUMBER_OF_BALLS = 0
    /\ COLORS = <<>>
    /\ state = <<>>
    /\ referenceState = <<>>
    /\ selectedPiece = noPiece
    /\ gameContainerWon = FALSE
    /\ lastBranch = "load"
    /\ pc = "call"
    /\ plan = NoPlan

CallPartition ==
    /\ result.kind = "pending"
    /\ result' \in chooseBallsInColumn(args.columns, args.balls, args.height, Nat)
    /\ UNCHANGED <<args, gameVars, pc, plan>>

NextPartition == CallPartition

SpecPartition == InitPartition /\ [][NextPartition]_vars

\* ------------------------------------------------------------------------
\* The shuffle on its own: one call of shuffle on an array
\* ------------------------------------------------------------------------
\* The game variables where no game has been set up.
NoGame ==
    /\ NUMBER_OF_BALLS = 0
    /\ COLORS = <<>>
    /\ state = <<>>
    /\ referenceState = <<>>
    /\ selectedPiece = noPiece
    /\ gameContainerWon = FALSE
    /\ lastBranch = "load"
    /\ plan = NoPlan

InitShuffle ==
    /\ args \in [array : {keys(n) : n \in 0 .. MaxShuffleLen}
                          \cup {colorsList(n) : n \in 1 .. MaxShuffleLen}]
    /\ result = Outcome("pending", <<>>, 0, FALSE)
    /\ pc = "call"
    /\ NoGame

CallShuffle ==
    /\ result.kind = "pending"
    /\ \E array \in shuffle(args.array, Nat) :
           result' = Outcome("return", array, 0, FALSE)
    /\ UNCHANGED <<args, gameVars, pc, plan>>

NextShuffle == CallShuffle

SpecShuffle == InitShuffle /\ [][NextShuffle]_vars

\* ------------------------------------------------------------------------
\* The board construction on its own: one call of initializeState
\* ------------------------------------------------------------------------
\* COLORS holds the elements passed, result.value the partition the call
\* drew and state the board it returned.
InitBuild ==
    /\ args \in [columns : 1 .. MaxColumns, balls : 0 .. MaxBuildBalls,
                 height : 0 .. MaxHeight]
    /\ COLORS = colorsList(args.balls)
    /\ result = Outcome("pending", <<>>, 0, FALSE)
    /\ pc = "call"
    /\ NUMBER_OF_BALLS = args.balls
    /\ state = <<>>
    /\ referenceState = <<>>
    /\ selectedPiece = noPiece
    /\ gameContainerWon = FALSE
    /\ lastBranch = "load"
    /\ plan = NoPlan

CallBuild ==
    /\ result.kind = "pending"
    /\ \E o \in initializeState(COLORS, args.columns, args.height, Nat) :
           /\ result' = Outcome(o.kind, o.partition, 0, FALSE)
           /\ state' = o.value
    /\ UNCHANGED <<NUMBER_OF_BALLS, COLORS, referenceState, selectedPiece,
                   gameContainerWon, lastBranch, args, pc, plan>>

NextBuild == CallBuild

SpecBuild == InitBuild /\ [][NextBuild]_vars

\* ------------------------------------------------------------------------
\* The set-up on any configuration: the ball count and the partitions of
\* the two calls of initializeState
\* ------------------------------------------------------------------------
\* The DOMContentLoaded handler with COLUMNS and HEIGHT replaced by
\* args.columns and args.height.  Of each call of initializeState the call
\* of chooseBallsInColumn is taken, which alone decides whether the call
\* returns or throws; ballsInColumns is a local of the call, so result
\* holds the partition of the latest call only.  An exception ends the
\* handler ("aborted").
InitSetup ==
    /\ args \in [columns : 1 .. MaxColumns, height : 0 .. MaxHeight]
    /\ result = Outcome("pending", <<>>, 0, FALSE)
    /\ pc = "config"
    /\ NoGame

\* const NUMBER_OF_BALLS = initNumberOfBalls(COLUMNS, HEIGHT).
ChooseBalls ==
    /\ pc = "config"
    /\ NUMBER_OF_BALLS' \in initNumberOfBalls(args.columns, args.height)
    /\ pc' = "state"
    /\ UNCHANGED <<COLORS, state, referenceState, selectedPiece,
                   gameContainerWon, lastBranch, args, result, plan>>

\* let state = initializeState(COLORS, COLUMNS, HEIGHT).
PartitionState ==
    /\ pc = "state"
    /\ result' \in chooseBallsInColumn(args.columns, NUMBER_OF_BALLS,
                                        args.height, Nat)
    /\ pc' = IF result'.kind = "return" THEN "reference" ELSE "aborted"
    /\ UNCHANGED <<args, gameVars, plan>>

\* const referenceState = initializeState(COLORS, COLUMNS, HEIGHT).
PartitionReference ==
    /\ pc = "reference"
    /\ result' \in chooseBallsInColumn(args.columns, NUMBER_OF_BALLS,
                                        args.height, Nat)
    /\ pc' = IF result'.kind = "return" THEN "loaded" ELSE "aborted"
    /\ UNCHANGED <<args, gameVars, plan>>

NextSetup == ChooseBalls \/ PartitionState \/ PartitionReference

SpecSetup == InitSetup /\ [][NextSetup]_vars

\* ------------------------------------------------------------------------
\* The player who wins: a plan of clicks from the playable board to the
\* reference board, and the game in which the player follows it
\* ------------------------------------------------------------------------
\* The click handlers as functions of the board and of the selection, so that
\* they can be applied to any board and not only to the current one.

\* The loop of findTopPiece on a board, from row i downwards.
RECURSIVE findTopPieceIn(_, _, _)
findTopPieceIn(board, columnIndex, i) ==
    IF i >= 0
    THEN IF At(board, columnIndex, i) # null
         THEN i
         ELSE findTopPieceIn(board, columnIndex, i - 1)
    ELSE -1

RECURSIVE findEmptyRowIn(_, _, _)

\* Mutant: the scan stops below the last row (i < HEIGHT - 1), so that the
\* top slot of a column is never offered.
findEmptyRowInShort(board, columnIndex, i) ==
    IF i < HEIGHT - 1
    THEN IF At(board, columnIndex, i) = null
         THEN i
         ELSE findEmptyRowIn(board, columnIndex, i + 1)
    ELSE -1

\* The loop of findEmptyRow on a board, from row i upwards.
findEmptyRowIn(board, columnIndex, i) ==
    IF i <= HEIGHT
    THEN IF At(board, columnIndex, i) = null
         THEN i
         ELSE findEmptyRowIn(board, columnIndex, i + 1)
    ELSE -1

\* handleClick(columnIndex) on the board and the selection given: the board
\* and the selection it leaves.
clickOn(board, piece, columnIndex) ==
    IF piece = noPiece
    THEN LET rowTopPiece == findTopPieceIn(board, columnIndex, HEIGHT - 1)
         IN  [state |-> board,
              selectedPiece |->
                  IF rowTopPiece = -1
                  THEN noPiece
                  ELSE [column |-> columnIndex, row |-> rowTopPiece]]
    ELSE IF columnIndex = piece.column
         THEN [state |-> board, selectedPiece |-> noPiece]
         ELSE LET targetRow == findEmptyRowIn(board, columnIndex, 0)
              IN  [state |->
                       IF targetRow # -1
                       THEN Put(Put(board, columnIndex, targetRow,
                                    At(board, piece.column, piece.row)),
                                piece.column, piece.row, null)
                       ELSE board,
                   selectedPiece |-> noPiece]

\* The board after a click on column `from` and then a click on column
\* `to`, starting with no piece selected.
twoClicks(board, from, to) ==
    LET first == clickOn(board, noPiece, from)
    IN  clickOn(first.state, first.selectedPiece, to).state

\* The set S once its elements are counted, which lists and sorts them and
\* makes the membership tests on it fast.
Counted(S) == IF Cardinality(S) >= 0 THEN S ELSE {}

\* The set S with its elements listed and sorted.
Enumerated(S) == Counted({x : x \in S})

\* The boards outside frontier and before from which the two clicks
\* (from, to) numbered pair lead to a board of frontier.  The candidates are
\* the boards the two clicks (to, from) make out of a board of frontier.
winningBy(before, frontier, pair) ==
    IF pair \div COLUMNS = pair % COLUMNS
    THEN {}
    ELSE Enumerated({ m \in { twoClicks(b, pair % COLUMNS, pair \div COLUMNS) :
                                b \in frontier } :
                        /\ m \notin frontier
                        /\ m \notin before
                        /\ twoClicks(m, pair \div COLUMNS, pair % COLUMNS) \in frontier })

\* The sequence of winningBy(before, frontier, pair) for every pair, from
\* `pair` on, appended to sets.
RECURSIVE winningSets(_, _, _, _)
winningSets(before, frontier, pair, sets) ==
    IF pair >= COLUMNS * COLUMNS
    THEN sets
    ELSE winningSets(before, frontier, pair + 1,
                     Append(sets, winningBy(before, frontier, pair)))

\* The union of the sets sets[i], sets[i + 1], ... and found.
RECURSIVE unionFrom(_, _, _)
unionFrom(sets, i, found) ==
    IF i > Len(sets)
    THEN found
    ELSE unionFrom(sets, i + 1,
                   IF sets[i] = {} THEN found ELSE Enumerated(found \cup sets[i]))

\* The boards from which clicks lead to a target board, by the least number
\* of pairs of clicks it takes: layers[1].all = {target}, and layers[d + 1]
\* holds the boards from which two clicks lead to a board of layers[d].all
\* and that are neither in layers[d] nor in layers[d - 1] (two clicks that
\* lead from a board to another one can be undone by two clicks, so that a
\* board next to layers[d] and nearer to the target is in layers[d - 1]),
\* in by[pair + 1] those for which the two clicks numbered pair do so.
RECURSIVE winningLayers(_)

\* winningLayers once the boards `found` of the next layer are known.
winningLayersWith(layers, sets, found) ==
    IF found = {}
    THEN layers
    ELSE winningLayers(Append(layers, [all |-> found, by |-> sets]))

\* winningLayers once the sets of the next layer are known.
winningLayersBy(layers, sets) ==
    winningLayersWith(layers, sets, unionFrom(sets, 1, {}))

winningLayers(layers) ==
    winningLayersBy(layers,
                    winningSets(IF Len(layers) > 1 THEN layers[Len(layers) - 1].all ELSE {},
                                layers[Len(layers)].all, 0, <<>>))

\* The layers of the boards from which clicks lead to target.
layersTo(target) == winningLayers(<<[all |-> {target}, by |-> <<>>]>>)

\* The clicks that lead from a board of layers[d] to the target of layers.
RECURSIVE clicksFrom(_, _, _)

\* clicksFrom once the number `pair` of the first two clicks is known.
clicksVia(board, d, layers, pair) ==
    <<pair \div COLUMNS, pair % COLUMNS>>
        \o clicksFrom(twoClicks(board, pair \div COLUMNS, pair % COLUMNS), d - 1, layers)

clicksFrom(board, d, layers) ==
    IF d <= 1
    THEN <<>>
    ELSE clicksVia(board, d, layers,
                   CHOOSE pair \in 0 .. (COLUMNS * COLUMNS - 1) :
                       board \in layers[d].by[pair + 1])

\* The clicks that undo `clicks`: its pairs in reverse order, each turned round.
RECURSIVE undoClicks(_)
undoClicks(clicks) ==
    IF Len(clicks) < 2
    THEN <<>>
    ELSE undoClicks(SubSeq(clicks, 3, Len(clicks))) \o <<clicks[2], clicks[1]>>

\* The plan to lead `board` to the target of layers, if board is in a layer.
planTo(board, layers) ==
    IF \E d \in DOMAIN layers : board \in layers[d].all
    THEN [found |-> TRUE,
          clicks |-> clicksFrom(board,
                                CHOOSE d \in DOMAIN layers : board \in layers[d].all,
                                layers)]
    ELSE NoPlan

\* The plan that undoes the plan `back`.
undoPlan(back) == [found |-> back.found, clicks |-> undoClicks(back.clicks)]

\* The plan to lead the target of layers to `board`.
planFrom(board, layers) == undoPlan(planTo(board, layers))

\* The boards initializeState can build from the palette `colors`.
boardsOf(colors, draws) ==
    { b.value : b \in { o \in initializeState(colors, COLUMNS, HEIGHT, draws) :
                        o.kind = "return" } }

\* The two boards of a game as loaded and the plan of the player, hub being
\* one of the boards and layers the boards from which clicks lead to hub.
InitBoards(hub, layers) ==
    \/ /\ referenceState = hub
       /\ state \in boardsOf(COLORS, Nat)
       /\ plan = planTo(state, layers)
    \/ /\ state = hub
       /\ referenceState \in boardsOf(COLORS, Nat)
       /\ plan = planFrom(referenceState, layers)

\* The game as loaded, with a plan for the player.  One board of the game
\* is the board built when every Math.random() gives 0 and the other one is
\* any board construction can produce: either as the playable board, or as
\* the reference board.
InitSolve ==
    /\ NUMBER_OF_BALLS \in initNumberOfBalls(COLUMNS, HEIGHT)
    /\ COLORS \in initializeColors(NUMBER_OF_BALLS, {0})
    /\ \E hub \in boardsOf(COLORS, {0}) :
          InitBoards(hub, layersTo(hub))
    /\ selectedPiece = noPiece
    /\ gameContainerWon = haveWon(state)
    /\ lastBranch = "load"
    /\ args = [columns |-> COLUMNS, balls |-> NUMBER_OF_BALLS, height |-> HEIGHT]
    /\ result = Outcome("pending", <<>>, 0, FALSE)
    /\ pc = "loaded"

\* The player makes the next click of the plan.
FollowPlan ==
    /\ plan.clicks # <<>>
    /\ handleClick(Head(plan.clicks))
    /\ plan' = [plan EXCEPT !.clicks = Tail(plan.clicks)]

NextSolve == FollowPlan

SpecSolve == InitSolve /\ [][NextSolve]_vars

\* ------------------------------------------------------------------------
\* Properties of the partition (checked under SpecPartition)
\* ------------------------------------------------------------------------
RECURSIVE Sum(_)
Sum(seq) == IF seq = <<>> THEN 0 ELSE Head(seq) + Sum(Tail(seq))

\* balls / columns <= height.
Feasible == args.balls <= args.height * args.columns

Called == result.kind # "pending"

\* C1: for columns >= 1, balls >= 0, height >= 0 with balls/columns <= height,
\* whatever the random order of the candidates, the partition returned is a
\* sequence of exactly `columns` integers, each in [0, height], whose sum is
\* exactly `balls`.
PartitionIsValid ==
    (Called /\ Feasible) =>
        /\ result.kind = "return"
        /\ Len(result.value) = args.columns
        /\ \A p \in 1 .. Len(result.value) : result.value[p] \in 0 .. args.height
        /\ Sum(result.value) = args.balls

\* A feasible call on three columns that returned an unbalanced partition,
\* one column at full height.
PartitionIsValidWitness ==
    /\ Called /\ Feasible
    /\ args = [columns |-> 3, balls |-> 6, height |-> 4]
    /\ result.value = <<4, 2, 0>>

\* C2: when the entry check passes, the call ends by returning a partition:
\* it neither throws to its caller nor ends without a result, and no call
\* nested in it that passed its own entry check ran out of candidates.
PartitionSucceeds ==
    (Called /\ Feasible) =>
        /\ result.kind = "return"
        /\ ~ result.fellOut

\* A feasible call that recovered from candidates whose recursive call
\* threw: it returned at the third candidate it tried.
PartitionSucceedsWitness ==
    /\ Called /\ Feasible
    /\ args.columns > 1
    /\ result.kind = "return"
    /\ result.tried = 3

\* C3: when balls/columns > height, the call throws the capacity error at
\* its entry check: it returns nothing and tries no candidate.
InfeasibleThrowsAtEntry ==
    (Called /\ ~ Feasible) =>
        /\ result.kind = "throw"
        /\ result.value = <<>>
        /\ result.tried = 0
        /\ ~ result.fellOut

\* An infeasible call on more than one column that has ended.
InfeasibleThrowsAtEntryWitness ==
    /\ Called /\ ~ Feasible
    /\ args.columns = 3
    /\ args.balls = 3 * args.height + 1
    /\ args.height > 0

\* ------------------------------------------------------------------------
\* Properties of the game (checked under Spec)
\* ------------------------------------------------------------------------
Cols == 0 .. (COLUMNS - 1)
Rows == 0 .. (HEIGHT - 1)

\* The slots of a board, as <<column, row>> pairs.
SlotsOf(board) == UNION {{<<c, r>> : r \in DOMAIN board[c]} : c \in DOMAIN board}

Idle == selectedPiece = noPiece
PieceSelected == selectedPiece # noPiece

\* Column c of the playable board has an empty slot among its HEIGHT slots.
HasEmptySlot(c) == \E r \in Rows : state[c][r] = null

\* The lowest empty row of column c.
LowestEmptyRow(c) ==
    CHOOSE r \in Rows : state[c][r] = null /\ \A q \in Rows : state[c][q] = null => r <= q

\* The highest filled row of column c.
HighestFilledRow(c) ==
    CHOOSE r \in Rows : state[c][r] # null /\ \A q \in Rows : state[c][q] # null => q <= r

\* C4: right after construction and after any sequence of clicks, every
\* column of the playable board has exactly HEIGHT slots and its filled slots
\* form a contiguous run starting at row 0: no filled slot sits above an
\* empty one.
NoFloatingBalls ==
    \A c \in DOMAIN state :
        /\ DOMAIN state[c] = Rows
        /\ \A r \in Rows \ {0} : state[c][r] # null => state[c][r - 1] # null

\* A move has just been applied, and it left a column partly filled next to
\* a full one and an empty one.
NoFloatingBallsWitness ==
    /\ lastBranch = "move"
    /\ \E c \in Cols : state[c][0] # null /\ state[c][HEIGHT - 1] = null
    /\ \E c \in Cols : state[c][HEIGHT - 1] # null
    /\ \E c \in Cols : state[c][0] = null

\* C5: with a piece selected at (srcCol, srcRow), a click on another column
\* c that has an empty slot moves the color of (srcCol, srcRow) to the
\* lowest empty slot of c, empties (srcCol, srcRow), leaves every other slot
\* unchanged and clears the selection.
MoveToLowestEmptySlot ==
    [][\A c \in Cols :
          (PieceSelected /\ c # selectedPiece.column /\ HasEmptySlot(c)
           /\ handleClick(c))
          => /\ state' = [x \in Cols |-> [y \in Rows |->
                            IF x = c /\ y = LowestEmptyRow(c)
                            THEN state[selectedPiece.column][selectedPiece.row]
                            ELSE IF x = selectedPiece.column /\ y = selectedPiece.row
                            THEN null
                            ELSE state[x][y]]]
             /\ selectedPiece' = noPiece]_vars

\* A move has just been applied onto a column that held balls already: the
\* ball landed above row 0.
MoveToLowestEmptySlotWitness ==
    /\ lastBranch = "move"
    /\ Idle
    /\ \E c \in Cols : state[c][1] # null /\ state[c][2] = null

\* C6: with a piece selected, a click on another column whose HEIGHT slots
\* are all filled changes no slot of the playable board and clears the
\* selection.
FullColumnRejects ==
    [][\A c \in Cols :
          (PieceSelected /\ c # selectedPiece.column /\ ~ HasEmptySlot(c)
           /\ handleClick(c))
          => /\ state' = state
             /\ selectedPiece' = noPiece]_vars

\* A click on a full column has just been rejected.
FullColumnRejectsWitness ==
    /\ lastBranch = "reject"
    /\ Idle
    /\ \E c \in Cols : ~ HasEmptySlot(c)

\* C7: with a piece selected, a click on the column of the selection clears
\* the selection and changes no slot of the playable board.
SameColumnCancels ==
    [][\A c \in Cols :
          (PieceSelected /\ c = selectedPiece.column /\ handleClick(c))
          => /\ state' = state
             /\ selectedPiece' = noPiece]_vars

\* A selection has just been cancelled.
SameColumnCancelsWitness ==
    /\ lastBranch = "cancel"
    /\ Idle

\* C8: with no piece selected, a click on column c never changes the
\* playable board; it leaves the selection empty when column c is entirely
\* empty and otherwise selects the highest filled slot of column c.
FirstClickSelectsTop ==
    [][\A c \in Cols :
          (Idle /\ handleClick(c))
          => /\ state' = state
             /\ selectedPiece' =
                   IF \A r \in Rows : state[c][r] = null
                   THEN noPiece
                   ELSE [column |-> c, row |-> HighestFilledRow(c)]]_vars

\* A first click has just selected the top piece of a column that is
\* neither empty nor full, next to an entirely empty column.
FirstClickSelectsTopWitness ==
    /\ lastBranch = "select"
    /\ PieceSelected
    /\ selectedPiece.row \in 1 .. (HEIGHT - 2)
    /\ \E c \in Cols : \A r \in Rows : state[c][r] = null

\* C9: the game container is shown as won exactly when the playable board
\* equals the reference board in every slot (same color or both empty), and
\* haveWon() itself gives that answer on the current boards.
WonIffBoardsEqual ==
    LET equal == \A c \in Cols : \A r \in Rows :
                     state[c][r] = referenceState[c][r]
    IN  /\ gameContainerWon = equal
        /\ haveWon(state) = equal

\* The playable board has been moved into equality with the reference.
WonIffBoardsEqualWitness ==
    /\ lastBranch = "move"
    /\ gameContainerWon
    /\ state = referenceState

\* C10: each of the NUMBER_OF_BALLS generated colors occupies exactly one
\* slot of the playable board and exactly one slot of the reference board,
\* and neither board holds anything else.
SameColorsOnBothBoards ==
    LET colors == {COLORS[p] : p \in DOMAIN COLORS}
        holds(board, x) == {sl \in SlotsOf(board) : board[sl[1]][sl[2]] = x}
        filled(board) == {sl \in SlotsOf(board) : board[sl[1]][sl[2]] # null}
    IN  /\ Len(COLORS) = NUMBER_OF_BALLS
        /\ Cardinality(colors) = NUMBER_OF_BALLS
        /\ \A x \in colors :
              /\ Cardinality(holds(state, x)) = 1
              /\ Cardinality(holds(referenceState, x)) = 1
        /\ Cardinality(filled(state)) = NUMBER_OF_BALLS
        /\ Cardinality(filled(referenceState)) = NUMBER_OF_BALLS

\* Seven balls, after a move, arranged otherwise than on the reference board.
SameColorsOnBothBoardsWitness ==
    /\ lastBranch = "move"
    /\ NUMBER_OF_BALLS = 7
    /\ state # referenceState

\* C11: no click, whatever the state it comes in (no selection or a piece
\* selected) and whatever its outcome (select, nothing to select, cancel,
\* rejected move, applied move), changes any slot of the reference board.
ReferenceNeverChanges ==
    [][\A c \in Cols : handleClick(c) => referenceState' = referenceState]_vars

\* A move has just been applied on six balls and the reference board still
\* has the full column it was built with, which the playable board has not.
ReferenceNeverChangesWitness ==
    /\ lastBranch = "move"
    /\ NUMBER_OF_BALLS = 6
    /\ \E c \in Cols : referenceState[c][HEIGHT - 1] # null
    /\ \A c \in Cols : state[c][HEIGHT - 1] = null

\* ------------------------------------------------------------------------
\* Properties of the board construction (checked under SpecBuild)
\* ------------------------------------------------------------------------
\* The rows of a column that hold a ball.
FilledRows(column) == {j \in DOMAIN column : column[j] # null}

\* C12: for every partition the call of chooseBallsInColumn returns inside
\* initializeState, the board built has exactly `columns` columns of exactly
\* `height` slots each, in column i exactly the bottom partition[i] slots
\* are filled and all the slots above them are empty, so that counting the
\* filled slots of each column gives the partition back.
BuildRoundTrip ==
    (Called /\ result.kind = "return") =>
        /\ DOMAIN state = 0 .. (args.columns - 1)
        /\ \A i \in DOMAIN state :
              /\ DOMAIN state[i] = 0 .. (args.height - 1)
              /\ FilledRows(state[i]) = 0 .. (result.value[i + 1] - 1)
              /\ Cardinality(FilledRows(state[i])) = result.value[i + 1]

\* A board of three columns was built from a partition with a full column,
\* a partly filled one and an empty one.
BuildRoundTripWitness ==
    /\ Called
    /\ result.kind = "return"
    /\ args = [columns |-> 3, balls |-> 5, height |-> 4]
    /\ result.value = <<4, 1, 0>>
    /\ state[0][3] # null
    /\ state[1][1] = null

\* ------------------------------------------------------------------------
\* Properties of the set-up (checked under SpecSetup)
\* ------------------------------------------------------------------------
\* The interval [2 * columns, columns * height / 2 + 1] of initNumberOfBalls
\* is not empty.
IntervalNonEmpty == 4 * args.columns <= args.columns * args.height + 2

\* C13: for every columns and height with a non-empty interval, every ball
\* count N initNumberOfBalls can return is an integer with
\* 2 * columns <= N <= floor(columns * height / 2) + 1.
BallCountWithinBounds ==
    (pc # "config" /\ IntervalNonEmpty) =>
        /\ NUMBER_OF_BALLS >= 2 * args.columns
        /\ NUMBER_OF_BALLS <= ((args.columns * args.height) \div 2) + 1

\* C17: for every columns and height with a non-empty interval, every ball
\* count N initNumberOfBalls can return has N / columns <= height, and both
\* calls of initializeState obtain a partition: neither meets the capacity
\* error nor an undefined partition.
ConstructionNeverFails ==
    (pc # "config" /\ IntervalNonEmpty) =>
        /\ NUMBER_OF_BALLS <= args.columns * args.height
        /\ pc # "aborted"
        /\ pc \in {"reference", "loaded"} =>
              /\ result.kind = "return"
              /\ Len(result.value) = args.columns

\* The configured game (3 columns of height 4) got the largest ball count
\* and both boards their partitions, the second one with a full column.
ConstructionNeverFailsWitness ==
    /\ pc = "loaded"
    /\ args = [columns |-> 3, height |-> 4]
    /\ NUMBER_OF_BALLS = 7
    /\ result.kind = "return"
    /\ result.value[1] = 4

\* ------------------------------------------------------------------------
\* Properties of the shuffle (checked under SpecShuffle)
\* ------------------------------------------------------------------------
\* The rearrangements of a sequence.
PermutationsOf(array) ==
    { [p \in DOMAIN array |-> array[f[p]]] : f \in Permutations(DOMAIN array) }

\* C14: for every input sequence every permutation of it, the unchanged
\* order included, is a possible result of shuffle, the swap partner at
\* index i being any index of [0, i].
ShuffleReachesEveryPermutation ==
    Called =>
        /\ args.array \in shuffle(args.array, Nat)
        /\ PermutationsOf(args.array) \subseteq shuffle(args.array, Nat)

\* ------------------------------------------------------------------------
\* Completeness of the partition (checked under SpecPartition)
\* ------------------------------------------------------------------------
\* The sequences of `columns` integers of [0, height] that sum to `balls`.
ValidPartitions(columns, balls, height) ==
    { v \in [1 .. columns -> 0 .. height] : Sum(v) = balls }

\* The sequences chooseBallsInColumn can return.
ReturnedPartitions(columns, balls, height) ==
    { o.value : o \in { q \in chooseBallsInColumn(columns, balls, height, Nat) :
                          q.kind = "return" } }

\* C16: every sequence of `columns` integers of [0, height] that sums to
\* `balls` is a possible result of chooseBallsInColumn; for columns = 3,
\* height = 4, balls = 6 both [2,2,2] and [2,0,4] are.
PartitionReachesEveryValidSequence ==
    (Called /\ Feasible) =>
        ValidPartitions(args.columns, args.balls, args.height)
            \subseteq ReturnedPartitions(args.columns, args.balls, args.height)

\* ------------------------------------------------------------------------
\* Properties of the selection and of findEmptyRow (checked under Spec)
\* ------------------------------------------------------------------------
\* C18: whenever a piece is selected, its column and row lie inside the
\* board, the slot of the playable board they name is filled, and every slot
\* above it in its column is empty.
SelectionIsTopPiece ==
    PieceSelected =>
        /\ selectedPiece.column \in Cols
        /\ selectedPiece.row \in Rows
        /\ state[selectedPiece.column][selectedPiece.row] # null
        /\ \A r \in Rows :
              r > selectedPiece.row => state[selectedPiece.column][r] = null

\* The top piece of a column holding two balls was selected while another
\* column is full.
SelectionIsTopPieceWitness ==
    /\ lastBranch = "select"
    /\ PieceSelected
    /\ selectedPiece.row = 1
    /\ state # referenceState
    /\ \E c \in Cols : ~ HasEmptySlot(c) /\ c # selectedPiece.column

\* C19: in every reachable state and for every column, findEmptyRow returns
\* -1 exactly when the HEIGHT slots of the column are all filled and the
\* lowest empty row, which lies in [0, HEIGHT), otherwise; it never returns
\* HEIGHT, and no move has written a slot outside the rows [0, HEIGHT).
FindEmptyRowStaysInside ==
    \A c \in Cols :
        /\ DOMAIN state[c] = Rows
        /\ findEmptyRow(c) # HEIGHT
        /\ (findEmptyRow(c) = -1) <=> ~ HasEmptySlot(c)
        /\ HasEmptySlot(c) =>
              /\ findEmptyRow(c) \in Rows
              /\ findEmptyRow(c) = LowestEmptyRow(c)

\* A move has just filled a column up to its last slot, so that the scan of
\* findEmptyRow on it runs to row HEIGHT.
FindEmptyRowStaysInsideWitness ==
    /\ lastBranch = "move"
    /\ \E c \in Cols :
          /\ ~ HasEmptySlot(c)
          /\ state[c] # referenceState[c]
          /\ findEmptyRow(c) = -1
    /\ \E c \in Cols : findEmptyRow(c) = 0

\* ------------------------------------------------------------------------
\* Solvability (checked under SpecSolve)
\* ------------------------------------------------------------------------
\* C15: for the configured game (3 columns, height 4, ball count chosen by
\* initNumberOfBalls), for every playable board and every reference board
\* construction can produce from the same colors there is a finite sequence
\* of clicks after which haveWon() is true.  Checked as: every game loaded
\* has a plan, and when the player has made the clicks of the plan, one
\* after the other, haveWon() is true.  The games loaded are those of any
\* playable board with one reference board H and those of the playable
\* board H with any reference board; the clicks from a playable board P to
\* H followed by those from H to a reference board R make P equal to R.
EveryPuzzleIsWinnable ==
    /\ plan.found
    /\ plan.clicks = <<>> => (gameContainerWon /\ haveWon(state))

\* A game of 7 balls has been won by the last move of a plan, the
\* reference board being another one than the board the plans pass through.
EveryPuzzleIsWinnableWitness ==
    /\ plan.found
    /\ plan.clicks = <<>>
    /\ lastBranch = "move"
    /\ NUMBER_OF_BALLS = 7
    /\ haveWon(state)
    /\ referenceState \notin boardsOf(COLORS, {0})

=============================================================================
